---- MODULE Spec2Model ----
(***************************************************************************)
(* Streaming response normalizer of the Dify provider.                     *)
(*                                                                         *)
(* Three stream transforms are modelled:                                   *)
(*   "v2"   DifyCompletionLanguageModel.doStream, LanguageModelV2          *)
(*   "v1"   DifyCompletionLanguageModel.doStream, LanguageModelV1          *)
(*          (src/src/completion/model.ts)                                  *)
(*   "chat" DifyChatLanguageModel.doStream, whose file is not among the    *)
(*          sources: it is modelled from the specification and from the    *)
(*          fixtures of src/src/dify-chat-language-model.test.ts           *)
(*                                                                         *)
(* One behaviour is one stream: the upstream delivers decode results one   *)
(* by one, each is handed to transform(chunk, controller), and the parts   *)
(* the transform enqueues are appended to the output.                      *)
(*                                                                         *)
(* The call that leads to the stream, doGenerate or doStream of the        *)
(* completion model, is modelled as well: getRequestBody, the request      *)
(* handed to postJsonToApi, the upstream's answer and the blocking result. *)
(***************************************************************************)
EXTENDS Integers, Sequences, FiniteSets, TLC

VARIABLES
    impl,           \* which model class opened the stream
    msgId,          \* const msgId = generateId()            (v2, chat)
    workflowRunId,  \* let workflowRunId: string | undefined
    taskId,         \* let taskId: string | undefined
    conversationId, \* chat only
    messageId,      \* chat only
    textSpanOpen,   \* chat only
    received,       \* history: the chunks handed to transform, in order
    out,            \* the parts enqueued on the controller, in order
    before,         \* history: the accumulator as the last transform call found it
    emitted,        \* history: the parts the last transform call enqueued
    closed,         \* the upstream has ended and the output with it
    settings,       \* this.settings, after the constructor
    provider,       \* DifyProviderSettings.headers of the provider factory
    schema,         \* which workflowCompletionResponseSchema "./schema" is
    op,             \* the operation called: doGenerate or doStream
    phase,          \* how far the call is
    options,        \* history: the call options as the caller passed them
    request,        \* what postJsonToApi was handed: headers and body
    response,       \* history: the upstream's answer to the request
    error,          \* the error the call was rejected with
    result,         \* what doGenerate returned
    streams         \* the streams open at once on one model instance

streamVars == << msgId, workflowRunId, taskId, conversationId, messageId,
                 textSpanOpen, received, out, before, emitted, closed >>

callVars == << settings, provider, schema, op, phase, options, request,
               response, error, result >>

vars == << impl, streamVars, callVars, streams >>

----------------------------------------------------------------------------
(* Bounds *)

\* Number of chunks one stream delivers at most.
MaxEvents == 3

\* Number of chunks a stream delivers at most when its call is followed from
\* the start.
MaxCallEvents == 1

\* Number of chunks each of two streams open at once delivers at most.
MaxTwoEvents == 2

----------------------------------------------------------------------------
(* JavaScript values *)

\* undefined, for a field or variable that holds a string otherwise
Undefined == "<undefined>"

\* if (x) for x: string | undefined
Truthy(x) == x # Undefined /\ x # ""

\* typeof x === "string" for x: string | undefined
IsString(x) == x # Undefined

\* values whose typeof the code asks for
JsUndefined == [typeof |-> "undefined"]
JsNumber(n) == [typeof |-> "number", num |-> n]
JsString(s) == [typeof |-> "string", str |-> s]

\* event.data: absent, or an object with the fields the code reads
NoData == [typeof |-> "undefined"]
Data(tokens, text) == [typeof |-> "object", total_tokens |-> tokens, text |-> text]

\* event.metadata.usage: absent, or the three counters
NoUsage == [typeof |-> "undefined"]
Usage(p, c, t) ==
    [typeof |-> "object", prompt_tokens |-> p, completion_tokens |-> c, total_tokens |-> t]

----------------------------------------------------------------------------
(* Upstream events: what createEventSourceResponseHandler hands over *)

Event(kind, wr, task) ==
    [ event           |-> kind,
      workflow_run_id |-> wr,
      task_id         |-> task,
      id              |-> Undefined,
      conversation_id |-> Undefined,
      message_id      |-> Undefined,
      answer          |-> Undefined,
      data            |-> NoData,
      usage           |-> NoUsage ]

WithData(e, d) == [e EXCEPT !.data = d]

Message(kind, answer, id, conv, msg) ==
    [Event(kind, Undefined, Undefined) EXCEPT
        !.answer = answer, !.id = id, !.conversation_id = conv, !.message_id = msg]

TestUsage == Usage(10, 25, 35)

WorkflowStartedEvents ==
    { Event("workflow_started", "wfr1", "task1"),
      Event("workflow_started", Undefined, Undefined),
      Event("workflow_started", "", "") }

WorkflowFinishedEvents ==
    { WithData(Event("workflow_finished", "wfr2", Undefined),
               Data(JsNumber(42), Undefined)),
      WithData(Event("workflow_finished", Undefined, Undefined),
               Data(JsNumber(15), Undefined)),
      WithData(Event("workflow_finished", "wfr1", "task1"),
               Data(JsString("42"), Undefined)),
      WithData(Event("workflow_finished", Undefined, Undefined),
               Data(JsUndefined, Undefined)),
      Event("workflow_finished", Undefined, Undefined) }

MessageEndEvents ==
    { [WithData(Event("message_end", Undefined, Undefined), Data(JsNumber(50), Undefined))
          EXCEPT !.usage = TestUsage, !.id = "msg1",
                 !.conversation_id = "conv1", !.message_id = "msg1"],
      [Event("message_end", Undefined, Undefined)
          EXCEPT !.usage = TestUsage, !.id = "msg1",
                 !.conversation_id = "conv1", !.message_id = "msg1"],
      Event("message_end", Undefined, Undefined) }

TextChunkEvents ==
    { WithData(Event("text_chunk", Undefined, Undefined), Data(JsUndefined, "Hi")),
      WithData(Event("text_chunk", "wfr1", "task1"), Data(JsUndefined, "")),
      WithData(Event("text_chunk", Undefined, Undefined), Data(JsUndefined, Undefined)) }

MessageEvents ==
    { Message("message", "Hel", "msg1", Undefined, Undefined),
      Message("message", "lo", "msg1", "conv2", "msg2"),
      Message("message", "", Undefined, Undefined, Undefined),
      Message("agent_message", "Agent response", "agent1", "conv1", "msg1") }

TelemetryEvents ==
    { Event("node_started", "wfr1", "task1"),
      Event("node_finished", "", ""),
      Event("tts_message", Undefined, "task2"),
      Event("tts_message_end", Undefined, Undefined),
      Event("ping", "wfr1", "task1") }

Events ==
    WorkflowStartedEvents \cup WorkflowFinishedEvents \cup MessageEndEvents
        \cup TextChunkEvents \cup MessageEvents \cup TelemetryEvents

\* ParseResult<DifyStreamEvent>
Success(e) == [success |-> TRUE, value |-> e]
Failure == [success |-> FALSE, error |-> "parse-error"]

Chunks == { Success(e) : e \in Events } \cup { Failure }

----------------------------------------------------------------------------
(* The transform of the completion model *)

\* a slip: the first id seen is kept
StoreId_FirstWins(current, field) == IF Truthy(current) THEN current ELSE field

\* if (data.workflow_run_id) workflowRunId = data.workflow_run_id
\* if (data.task_id) taskId = data.task_id
StoreId(current, field) == IF Truthy(field) THEN field ELSE current

\* let totalTokens = 0; if (... typeof data.data.total_tokens === "number") ...
TotalTokens(data) ==
    IF data.data.typeof = "object" /\ data.data.total_tokens.typeof = "number"
    THEN data.data.total_tokens.num
    ELSE 0

ErrorPart(chunk) == [type |-> "error", error |-> chunk.error]

\* a slip: the total is reported as the input
FinishV2_SwappedUsage(wr, task, totalTokens) ==
    [ type |-> "finish",
      finishReason |-> "stop",
      providerMetadata |-> [difyWorkflowData |-> [workflowRunId |-> wr, taskId |-> task]],
      usage |-> [inputTokens |-> totalTokens, outputTokens |-> 0,
                 totalTokens |-> totalTokens] ]

FinishV2(wr, task, totalTokens) ==
    [ type |-> "finish",
      finishReason |-> "stop",
      providerMetadata |-> [difyWorkflowData |-> [workflowRunId |-> wr, taskId |-> task]],
      usage |-> [inputTokens |-> 0, outputTokens |-> totalTokens,
                 totalTokens |-> totalTokens] ]

FinishV1(wr, task, totalTokens) ==
    [ type |-> "finish",
      finishReason |-> "stop",
      providerMetadata |-> [difyWorkflowData |-> [workflowRunId |-> wr, taskId |-> task]],
      usage |-> [promptTokens |-> 0, completionTokens |-> totalTokens] ]

\* a slip: the finish part is enqueued before the span is closed
WorkflowFinishedV2_FinishFirst(data, wr, task, mid) ==
    << FinishV2(wr, task, TotalTokens(data)),
       [type |-> "text-end", id |-> mid] >>

\* a slip: the span is closed before and after the finish part
WorkflowFinishedV2_ClosesTwice(data, wr, task, mid) ==
    << [type |-> "text-end", id |-> mid],
       FinishV2(wr, task, TotalTokens(data)),
       [type |-> "text-end", id |-> mid] >>

\* case "workflow_finished" (V2)
WorkflowFinishedV2(data, wr, task, mid) ==
    << [type |-> "text-end", id |-> mid],
       FinishV2(wr, task, TotalTokens(data)) >>

\* a slip: an empty text is dropped, if (data.data.text)
TextChunkV2_SkipsEmptyText(data, mid) ==
    IF data.data.typeof = "object" /\ Truthy(data.data.text)
    THEN << [type |-> "text-delta", id |-> mid, delta |-> data.data.text] >>
    ELSE << >>

\* a slip: every text-delta gets an id of its own
TextChunkV2_FreshId(data, mid) ==
    IF data.data.typeof = "object" /\ IsString(data.data.text)
    THEN << [type |-> "text-delta", id |-> "fresh-id", delta |-> data.data.text] >>
    ELSE << >>

\* case "text_chunk" (V2)
TextChunkV2(data, mid) ==
    IF data.data.typeof = "object" /\ IsString(data.data.text)
    THEN << [type |-> "text-delta", id |-> mid, delta |-> data.data.text] >>
    ELSE << >>

\* case "workflow_started" (V2)
WorkflowStartedV2(data, mid) ==
    IF IsString(data.workflow_run_id)
    THEN << [type |-> "response-metadata", id |-> data.workflow_run_id],
            [type |-> "text-start", id |-> mid] >>
    ELSE << >>

\* a slip: message_end shares the case of workflow_finished
SwitchV2_MessageEndFinishes(data, wr, task, mid) ==
    CASE data.event \in {"workflow_finished", "message_end"} ->
            WorkflowFinishedV2(data, wr, task, mid)
      [] data.event = "text_chunk" -> TextChunkV2(data, mid)
      [] data.event = "workflow_started" -> WorkflowStartedV2(data, mid)
      [] OTHER -> << >>

\* switch (data.event) of the V2 transform, after the ids were stored
SwitchV2(data, wr, task, mid) ==
    CASE data.event = "workflow_finished" -> WorkflowFinishedV2(data, wr, task, mid)
      [] data.event = "text_chunk" -> TextChunkV2(data, mid)
      [] data.event = "workflow_started" -> WorkflowStartedV2(data, mid)
      [] OTHER -> << >>

\* a slip: the finish part is enqueued twice
WorkflowFinishedV1_FinishTwice(data, wr, task) ==
    << FinishV1(wr, task, TotalTokens(data)), FinishV1(wr, task, TotalTokens(data)) >>

\* case "workflow_finished" (V1)
WorkflowFinishedV1(data, wr, task) ==
    << FinishV1(wr, task, TotalTokens(data)) >>

\* a slip: an empty text is dropped, if (data.data.text)
TextChunkV1_SkipsEmptyText(data) ==
    IF data.data.typeof = "object" /\ Truthy(data.data.text)
    THEN << [type |-> "text-delta", textDelta |-> data.data.text] >>
    ELSE << >>

\* case "text_chunk" (V1)
TextChunkV1(data) ==
    IF data.data.typeof = "object" /\ IsString(data.data.text)
    THEN << [type |-> "text-delta", textDelta |-> data.data.text] >>
    ELSE << >>

\* a slip: the start of the run is not reported
WorkflowStartedV1_Silent(data) == << >>

\* case "workflow_started" (V1)
WorkflowStartedV1(data) ==
    IF IsString(data.workflow_run_id)
    THEN << [type |-> "response-metadata", id |-> data.workflow_run_id] >>
    ELSE << >>

\* a slip: node_started shares the case of workflow_started
SwitchV1_NodeStartedReports(data, wr, task) ==
    CASE data.event = "workflow_finished" -> WorkflowFinishedV1(data, wr, task)
      [] data.event = "text_chunk" -> TextChunkV1(data)
      [] data.event \in {"workflow_started", "node_started"} -> WorkflowStartedV1(data)
      [] OTHER -> << >>

\* switch (data.event) of the V1 transform, after the ids were stored
SwitchV1(data, wr, task) ==
    CASE data.event = "workflow_finished" -> WorkflowFinishedV1(data, wr, task)
      [] data.event = "text_chunk" -> TextChunkV1(data)
      [] data.event = "workflow_started" -> WorkflowStartedV1(data)
      [] OTHER -> << >>

\* a slip: the ids are stored inside the cases of the switch only
DispatchV2_StoresInCases(data, wr, task, mid) ==
    IF data.event \in {"workflow_finished", "text_chunk", "workflow_started"}
    THEN [parts |-> SwitchV2(data, StoreId(wr, data.workflow_run_id),
                             StoreId(task, data.task_id), mid),
          workflowRunId |-> StoreId(wr, data.workflow_run_id),
          taskId |-> StoreId(task, data.task_id)]
    ELSE [parts |-> << >>, workflowRunId |-> wr, taskId |-> task]

\* a slip: the ids are assigned without the truthiness test
DispatchV2_Overwrites(data, wr, task, mid) ==
    [parts |-> SwitchV2(data, data.workflow_run_id, data.task_id, mid),
     workflowRunId |-> data.workflow_run_id, taskId |-> data.task_id]

\* the successfully decoded chunk: the ids are stored, then the switch
DispatchV2(data, wr, task, mid) ==
    LET wr2 == StoreId(wr, data.workflow_run_id)
        task2 == StoreId(task, data.task_id)
    IN  [parts |-> SwitchV2(data, wr2, task2, mid),
         workflowRunId |-> wr2, taskId |-> task2]

\* a slip: the ids of the TTS events are not stored
DispatchV1_SkipsTts(data, wr, task) ==
    IF data.event \in {"tts_message", "tts_message_end"}
    THEN [parts |-> << >>, workflowRunId |-> wr, taskId |-> task]
    ELSE [parts |-> SwitchV1(data, StoreId(wr, data.workflow_run_id),
                             StoreId(task, data.task_id)),
          workflowRunId |-> StoreId(wr, data.workflow_run_id),
          taskId |-> StoreId(task, data.task_id)]

DispatchV1(data, wr, task) ==
    LET wr2 == StoreId(wr, data.workflow_run_id)
        task2 == StoreId(task, data.task_id)
    IN  [parts |-> SwitchV1(data, wr2, task2),
         workflowRunId |-> wr2, taskId |-> task2]

\* a slip: the failure also forgets the ids stored so far
TransformV2_FailureResets(chunk, wr, task, mid) ==
    IF ~chunk.success
    THEN [parts |-> << ErrorPart(chunk) >>,
          workflowRunId |-> Undefined, taskId |-> Undefined]
    ELSE DispatchV2(chunk.value, wr, task, mid)

\* transform(chunk, controller): the parts enqueued and the closure variables after
TransformV2(chunk, wr, task, mid) ==
    IF ~chunk.success
    THEN [parts |-> << ErrorPart(chunk) >>, workflowRunId |-> wr, taskId |-> task]
    ELSE DispatchV2(chunk.value, wr, task, mid)

\* a slip: the failure is swallowed
TransformV1_FailureSilent(chunk, wr, task) ==
    IF ~chunk.success
    THEN [parts |-> << >>, workflowRunId |-> wr, taskId |-> task]
    ELSE DispatchV1(chunk.value, wr, task)

TransformV1(chunk, wr, task) ==
    IF ~chunk.success
    THEN [parts |-> << ErrorPart(chunk) >>, workflowRunId |-> wr, taskId |-> task]
    ELSE DispatchV1(chunk.value, wr, task)

\* responseStream.pipeThrough(new TransformStream({transform})): the closure
\* variables and the output after the chunks were transformed one by one
RECURSIVE StreamV2(_, _)
StreamV2(chunks, mid) ==
    IF chunks = << >>
    THEN [out |-> << >>, workflowRunId |-> Undefined, taskId |-> Undefined]
    ELSE LET prev == StreamV2(SubSeq(chunks, 1, Len(chunks) - 1), mid)
             r == TransformV2(chunks[Len(chunks)], prev.workflowRunId, prev.taskId, mid)
         IN  [out |-> prev.out \o r.parts,
              workflowRunId |-> r.workflowRunId, taskId |-> r.taskId]

RECURSIVE StreamV1(_)
StreamV1(chunks) ==
    IF chunks = << >>
    THEN [out |-> << >>, workflowRunId |-> Undefined, taskId |-> Undefined]
    ELSE LET prev == StreamV1(SubSeq(chunks, 1, Len(chunks) - 1))
             r == TransformV1(chunks[Len(chunks)], prev.workflowRunId, prev.taskId)
         IN  [out |-> prev.out \o r.parts,
              workflowRunId |-> r.workflowRunId, taskId |-> r.taskId]


----------------------------------------------------------------------------
(* The transform of the chat model.  DifyChatLanguageModel is not among the *)
(* sources; this is the dispatcher of the specification, with the cases the *)
(* fixtures of dify-chat-language-model.test.ts pin down.                   *)

ChatKinds ==
    { "workflow_started", "workflow_finished", "message_end", "message",
      "agent_message", "text_chunk", "node_started", "node_finished" }

FinishChat(acc, totalTokens) ==
    [ type |-> "finish",
      finishReason |-> "stop",
      providerMetadata |->
          [difyWorkflowData |->
              [ workflowRunId |-> acc.workflowRunId, taskId |-> acc.taskId,
                conversationId |-> acc.conversationId, messageId |-> acc.messageId ]],
      usage |-> [inputTokens |-> 0, outputTokens |-> totalTokens,
                 totalTokens |-> totalTokens] ]

\* a slip: metadata.usage.completion_tokens wins over data.total_tokens
MessageEndTokens_PreferUsage(data) ==
    IF data.usage.typeof = "object" THEN data.usage.completion_tokens
    ELSE TotalTokens(data)

\* a slip: metadata.usage.completion_tokens is the fallback
MessageEndTokens_UsageFallback(data) ==
    IF data.data.typeof = "object" /\ data.data.total_tokens.typeof = "number"
    THEN data.data.total_tokens.num
    ELSE IF data.usage.typeof = "object" THEN data.usage.completion_tokens ELSE 0

\* a slip: metadata.usage.total_tokens is the fallback
MessageEndTokens_TotalFallback(data) ==
    IF data.data.typeof = "object" /\ data.data.total_tokens.typeof = "number"
    THEN data.data.total_tokens.num
    ELSE IF data.usage.typeof = "object" THEN data.usage.total_tokens ELSE 0

\* message_end: the usage of the finish part.  The fixture with only
\* metadata.usage expects outputTokens 0 and the one with data.total_tokens 50
\* expects 50: the nested numeric field alone is read.
MessageEndTokens(data) == TotalTokens(data)

\* a slip: the conversation ids are not accumulated
StoreIdsChat_NoConversation(acc, data) ==
    IF data.event \in ChatKinds
    THEN [ acc EXCEPT
             !.workflowRunId = StoreId(acc.workflowRunId, data.workflow_run_id),
             !.taskId = StoreId(acc.taskId, data.task_id) ]
    ELSE acc

\* the accumulator after the ids of a recognized, non-TTS event were merged
StoreIdsChat(acc, data) ==
    IF data.event \in ChatKinds
    THEN [ acc EXCEPT
             !.workflowRunId = StoreId(acc.workflowRunId, data.workflow_run_id),
             !.taskId = StoreId(acc.taskId, data.task_id),
             !.conversationId = StoreId(acc.conversationId, data.conversation_id),
             !.messageId = StoreId(acc.messageId, data.message_id) ]
    ELSE acc

DeltaChat(text, mid) ==
    IF Truthy(text) THEN << [type |-> "text-delta", id |-> mid, delta |-> text] >>
    ELSE << >>

\* a slip: the id of a message is not reported
MessageMetadataChat_None(data) == << >>

\* message, agent_message: the response-metadata part of an event with an id
MessageMetadataChat(data) ==
    IF Truthy(data.answer) /\ IsString(data.id)
    THEN << [type |-> "response-metadata", id |-> data.id] >>
    ELSE << >>

SwitchChat(data, acc, mid) ==
    CASE data.event = "workflow_started" ->
            IF ~acc.textSpanOpen
            THEN << [type |-> "response-metadata",
                     id |-> IF IsString(data.id) THEN data.id ELSE data.workflow_run_id],
                    [type |-> "text-start", id |-> mid] >>
            ELSE << >>
      [] data.event \in {"message", "agent_message"} ->
            DeltaChat(data.answer, mid) \o MessageMetadataChat(data)
      [] data.event = "text_chunk" ->
            DeltaChat(IF data.data.typeof = "object" THEN data.data.text ELSE Undefined, mid)
      [] data.event = "workflow_finished" ->
            (IF acc.textSpanOpen THEN << [type |-> "text-end", id |-> mid] >> ELSE << >>)
              \o << FinishChat(acc, TotalTokens(data)) >>
      [] data.event = "message_end" ->
            << FinishChat(acc, MessageEndTokens(data)) >>
      [] OTHER -> << >>

TransformChat(chunk, acc, mid) ==
    IF ~chunk.success
    THEN [parts |-> << ErrorPart(chunk) >>, acc |-> acc]
    ELSE LET data == chunk.value
             acc2 == StoreIdsChat(acc, data)
         IN  [parts |-> SwitchChat(data, acc2, mid),
              acc |-> IF data.event = "workflow_started"
                      THEN [acc2 EXCEPT !.textSpanOpen = TRUE]
                      ELSE acc2]

----------------------------------------------------------------------------
(* The call: settings, headers, prompt *)

\* a slip: the default of the constructor is the blocking mode
Construct_DefaultBlocking(given) ==
    [ responseMode |-> IF Truthy(given.responseMode) THEN given.responseMode
                       ELSE "blocking" ]

\* the constructor: a falsy responseMode becomes "streaming"
Construct(given) ==
    [ responseMode |-> IF Truthy(given.responseMode) THEN given.responseMode
                       ELSE "streaming" ]

SettingsGiven ==
    { [responseMode |-> Undefined], [responseMode |-> "blocking"],
      [responseMode |-> "streaming"] }

\* a header object is a function from header names to values
EmptyMap == [h \in {} |-> ""]

\* { ...a, ...b }
Spread(a, b) ==
    [h \in DOMAIN a \cup DOMAIN b |-> IF h \in DOMAIN b THEN b[h] ELSE a[h]]

\* const { [name]: _, ...rest } = map
Omit(map, name) == [h \in DOMAIN map \ {name} |-> map[h]]

\* options.headers: undefined, or a header object
NoHeaders == [typeof |-> "undefined"]
Headers(map) == [typeof |-> "object", map |-> map]

\* headers || {}
MapOf(headers) == IF headers.typeof = "object" THEN headers.map ELSE EmptyMap

ProviderHeaders ==
    { EmptyMap, "X-Provider" :> "p", "user-id" :> "provider-user" }

\* config.headers() as the provider factory builds it
ConfigHeaders(providerHeaders) ==
    Spread(("Authorization" :> "Bearer key") @@ ("Content-Type" :> "application/json"),
           providerHeaders)

combineHeaders(config, headers) == Spread(config, MapOf(headers))

CallHeaders ==
    { NoHeaders,
      Headers(EmptyMap),
      Headers("user-id" :> "test-user"),
      Headers(("user-id" :> "") @@ ("X-Custom" :> "v")),
      Headers("X-Custom" :> "v") }

\* the content of a message: a string, or an array of parts
StringContent(s) == [typeof |-> "string", str |-> s, parts |-> << >>]
ArrayContent(ps) == [typeof |-> "array", str |-> Undefined, parts |-> ps]
TextPart(t) == [type |-> "text", text |-> t]
FilePart == [type |-> "file", text |-> Undefined]
ImagePart == [type |-> "image", text |-> Undefined]
Msg(role, content) == [role |-> role, content |-> content]

Prompts ==
    { << >>,
      << Msg("user", StringContent("Hello")) >>,
      << Msg("system", StringContent("Be brief")),
         Msg("user", ArrayContent(<< TextPart("Hello"), TextPart(""), TextPart("there") >>)) >>,
      << Msg("user", StringContent("Hello")),
         Msg("assistant", StringContent("Hi")) >>,
      << Msg("user", ArrayContent(<< TextPart("Look"), FilePart >>)) >>,
      << Msg("user", ArrayContent(<< TextPart("Look"), ImagePart >>)) >> }

CallOptions == [prompt : Prompts, headers : CallHeaders]

NoError == [name |-> Undefined, message |-> Undefined]
APICallError(message) == [name |-> "AI_APICallError", message |-> message]

----------------------------------------------------------------------------
(* getRequestBody *)

\* the part type that counts as an attachment: "file" in V2, "image" in V1
AttachmentType(v) == IF v = "v2" THEN "file" ELSE "image"

HasAttachments(v, content) ==
    /\ content.typeof = "array"
    /\ \E i \in 1..Len(content.parts) : content.parts[i].type = AttachmentType(v)

\* parts.map(text or "").filter(Boolean).join(" ")
RECURSIVE Join(_)
Join(texts) ==
    IF texts = << >> THEN ""
    ELSE IF Len(texts) = 1 THEN texts[1]
    ELSE texts[1] \o " " \o Join(Tail(texts))

Query(content) ==
    IF content.typeof = "string" THEN content.str
    ELSE Join(SelectSeq([i \in 1..Len(content.parts) |->
                            IF content.parts[i].type = "text"
                            THEN content.parts[i].text ELSE ""],
                        LAMBDA t : Truthy(t)))

UserIdPlaceholder == "you_should_pass_user-id"

\* options.headers?.["user-id"] ?? "you_should_pass_user-id"
UserId(headers) ==
    IF headers.typeof = "object" /\ "user-id" \in DOMAIN headers.map
    THEN headers.map["user-id"]
    ELSE UserIdPlaceholder

\* a slip: the user-id header stays among the headers of the call
CleanHeaders_KeepsUserId(headers) == Headers(MapOf(headers))

\* const { "user-id": _, ...cleanHeaders } = options.headers || {}
CleanHeaders(headers) == Headers(Omit(MapOf(headers), "user-id"))

\* getRequestBody: what it throws or returns, and options.headers after it
GetRequestBody(v, o, s) ==
    LET Throws(message) ==
            [threw |-> TRUE, error |-> APICallError(message), headers |-> o.headers]
        messages == o.prompt
    IN  IF Len(messages) = 0 THEN Throws("No messages provided")
        ELSE IF messages[Len(messages)].role # "user"
        THEN Throws("The last message must be a user message")
        ELSE IF HasAttachments(v, messages[Len(messages)].content)
        THEN Throws("Dify provider does not currently support "
                       \o AttachmentType(v) \o " attachments")
        ELSE [ threw |-> FALSE,
               body |-> [ inputs |-> [query |-> Query(messages[Len(messages)].content)],
                          response_mode |-> s.responseMode,
                          user |-> UserId(o.headers) ],
               headers |-> CleanHeaders(o.headers) ]

\* what postJsonToApi is handed
NoRequest == [sent |-> FALSE]
Request(headers, body) == [sent |-> TRUE, headers |-> headers, body |-> body]

\* the body doGenerate and doStream post
BodyOf(operation, requestBody) ==
    IF operation = "stream" THEN [requestBody EXCEPT !.response_mode = "streaming"]
    ELSE requestBody

----------------------------------------------------------------------------
(* The upstream's answer and the blocking result *)

\* no answer yet
NoResponse == [status |-> "none"]

\* answers with a non-success status and a JSON body holding a message
FailedResponses ==
    { [status |-> "failed", message |-> "Bad Request: Invalid input parameters"],
      [status |-> "failed", message |-> "Unauthorized"] }

\* a slip: the upstream message is passed on bare
difyFailedResponseHandler_Bare(resp) == APICallError(resp.message)

\* errorToMessage of difyFailedResponseHandler
difyFailedResponseHandler(resp) ==
    APICallError("Dify API error: " \o resp.message)

\* data.outputs of a blocking response: absent, or an object with result
NoOutputs == [typeof |-> "undefined"]
Outputs(r) == [typeof |-> "object", result |-> r]

BlockingUsage == Usage(5, 7, 12)

\* the JSON of a successful blocking response; usage is metadata.usage
BlockingBodies ==
    [ task_id : {"task1"},
      workflow_run_id : {Undefined, "wfr1"},
      outputs : {NoOutputs, Outputs(""), Outputs("Hello world")},
      usage : {NoUsage, BlockingUsage} ]

OkBlocking(body) == [status |-> "ok", body |-> body]
OkStream == [status |-> "ok"]

\* "./schema" of a completion model is one of two files: the schema that
\* requires metadata.usage (schema.ts) or the one without metadata
\* (part_001).  Which model imports which is not fixed by the sources, so a
\* model is constructed with either.
Schemas == {"usage", "plain"}

\* createJsonResponseHandler(workflowCompletionResponseSchema): a z.object
\* keeps the keys it declares
ParseResponse(sch, body) ==
    IF sch = "usage"
    THEN [success |-> body.usage.typeof = "object", value |-> body]
    ELSE [success |-> TRUE, value |-> [body EXCEPT !.usage = NoUsage]]

\* data.outputs?.result || ""
TextContent(data) ==
    IF data.outputs.typeof = "object" /\ Truthy(data.outputs.result)
    THEN data.outputs.result ELSE ""

\* a slip: the text entry is pushed whatever the text
ContentV2_AlwaysPushes(textContent) == << [type |-> "text", text |-> textContent] >>

\* if (textContent) content.push({type: "text", text: textContent})
ContentV2(textContent) ==
    IF Truthy(textContent) THEN << [type |-> "text", text |-> textContent] >>
    ELSE << >>

NoResult == [typeof |-> "undefined"]

\* a slip: the counters are not read
UsageV2_Zero(usage) == [inputTokens |-> 0, outputTokens |-> 0, totalTokens |-> 0]

\* usage of the V2 result, from typedData.metadata.usage
UsageV2(usage) ==
    [ inputTokens |-> usage.prompt_tokens,
      outputTokens |-> usage.completion_tokens,
      totalTokens |-> usage.total_tokens ]

\* doGenerate of V2 after the response was decoded: reading
\* typedData.metadata.usage of a value without metadata is a TypeError
ReduceV2(typedData) ==
    IF typedData.usage.typeof # "object"
    THEN [threw |-> TRUE, error |-> [name |-> "TypeError", message |-> Undefined]]
    ELSE [ threw |-> FALSE,
           result |->
             [ typeof |-> "object",
               content |-> ContentV2(TextContent(typedData)),
               finishReason |-> "stop",
               usage |-> UsageV2(typedData.usage),
               providerMetadata |->
                 [difyWorkflowData |-> [ workflowRunId |-> typedData.workflow_run_id,
                                         taskId |-> typedData.task_id ]],
               responseId |-> IF Truthy(typedData.workflow_run_id)
                              THEN typedData.workflow_run_id ELSE "generated-id" ] ]

\* doGenerate of V1 after the response was decoded
ReduceV1(data) ==
    [ threw |-> FALSE,
      result |->
        [ typeof |-> "object",
          text |-> TextContent(data),
          finishReason |-> "stop",
          usage |-> [promptTokens |-> 0, completionTokens |-> 0],
          providerMetadata |->
            [difyWorkflowData |-> [ workflowRunId |-> data.workflow_run_id,
                                    taskId |-> data.task_id ]],
          responseId |-> IF Truthy(data.workflow_run_id)
                         THEN data.workflow_run_id ELSE "generated-id" ] ]

\* doGenerate from the successful response on: decode, then reduce
Generate(v, sch, body) ==
    LET parsed == ParseResponse(sch, body)
    IN  IF ~parsed.success
        THEN [threw |-> TRUE, error |-> APICallError("Invalid JSON response")]
        ELSE IF v = "v2" THEN ReduceV2(parsed.value) ELSE ReduceV1(parsed.value)

----------------------------------------------------------------------------
(* The stream *)

Accumulator ==
    [ workflowRunId |-> workflowRunId, taskId |-> taskId,
      conversationId |-> conversationId, messageId |-> messageId,
      textSpanOpen |-> textSpanOpen ]

\* doStream up to the return: the closure variables are declared, not assigned
InitStream ==
    /\ msgId = "generated-id"
    /\ workflowRunId = Undefined
    /\ taskId = Undefined
    /\ conversationId = Undefined
    /\ messageId = Undefined
    /\ textSpanOpen = FALSE
    /\ received = << >>
    /\ out = << >>
    /\ before = Accumulator
    /\ emitted = << >>
    /\ closed = FALSE

\* the call that opened a stream: doStream has returned it
DefaultOptions ==
    [ prompt |-> << Msg("user", ArrayContent(<< TextPart("Hi") >>)) >>,
      headers |-> NoHeaders ]

Opened ==
    /\ settings = Construct([responseMode |-> Undefined])
    /\ provider = EmptyMap
    /\ schema = "usage"
    /\ op = "stream"
    /\ phase = "streaming"
    /\ options = DefaultOptions
    /\ request =
          LET r == GetRequestBody(impl, DefaultOptions, settings)
          IN  Request(combineHeaders(ConfigHeaders(provider), r.headers),
                      BodyOf("stream", r.body))
    /\ response = OkStream
    /\ error = NoError
    /\ result = NoResult

\* no further stream is open
NoStreams == << >>

Init ==
    /\ impl \in {"v1", "v2"}
    /\ InitStream
    /\ Opened
    /\ streams = NoStreams

\* a slip: the parts of the newest event go before the older ones
Enqueue_Prepends(queue, parts) == parts \o queue

\* controller.enqueue, once per part of one transform call: the parts join
\* the readable side in the order they were enqueued
Enqueue(queue, parts) == queue \o parts

CanReceive == phase = "streaming" /\ ~closed /\ Len(received) < MaxEvents

V2Transform ==
    /\ impl = "v2"
    /\ CanReceive
    /\ \E chunk \in Chunks :
          LET r == TransformV2(chunk, workflowRunId, taskId, msgId)
          IN  /\ received' = Append(received, chunk)
              /\ before' = Accumulator
              /\ emitted' = r.parts
              /\ out' = Enqueue(out, r.parts)
              /\ workflowRunId' = r.workflowRunId
              /\ taskId' = r.taskId
    /\ UNCHANGED << impl, msgId, conversationId, messageId, textSpanOpen, closed >>
    /\ UNCHANGED << callVars, streams >>

V1Transform ==
    /\ impl = "v1"
    /\ CanReceive
    /\ \E chunk \in Chunks :
          LET r == TransformV1(chunk, workflowRunId, taskId)
          IN  /\ received' = Append(received, chunk)
              /\ before' = Accumulator
              /\ emitted' = r.parts
              /\ out' = Enqueue(out, r.parts)
              /\ workflowRunId' = r.workflowRunId
              /\ taskId' = r.taskId
    /\ UNCHANGED << impl, msgId, conversationId, messageId, textSpanOpen, closed >>
    /\ UNCHANGED << callVars, streams >>

\* The upstream ends: the TransformStream has no flush, the output just closes.
Close ==
    /\ phase = "streaming"
    /\ ~closed
    /\ closed' = TRUE
    /\ UNCHANGED << impl, msgId, workflowRunId, taskId, conversationId, messageId,
                    textSpanOpen, received, out, before, emitted >>
    /\ UNCHANGED << callVars, streams >>

Next == V2Transform \/ V1Transform \/ Close

Spec == Init /\ [][Next]_vars

\* A stream whose upstream is finite: the response body ends, and the
\* TransformStream, which defines no flush, closes its readable side with it.
SpecFinite == Spec /\ WF_vars(Close)

\* A stream of the chat model.
InitChat ==
    /\ impl = "chat"
    /\ InitStream
    /\ Opened
    /\ streams = NoStreams

ChatTransform ==
    /\ impl = "chat"
    /\ CanReceive
    /\ \E chunk \in Chunks :
          LET r == TransformChat(chunk, Accumulator, msgId)
          IN  /\ received' = Append(received, chunk)
              /\ before' = Accumulator
              /\ emitted' = r.parts
              /\ out' = Enqueue(out, r.parts)
              /\ workflowRunId' = r.acc.workflowRunId
              /\ taskId' = r.acc.taskId
              /\ conversationId' = r.acc.conversationId
              /\ messageId' = r.acc.messageId
              /\ textSpanOpen' = r.acc.textSpanOpen
    /\ UNCHANGED << impl, msgId, closed >>
    /\ UNCHANGED << callVars, streams >>

CloseChat ==
    /\ impl = "chat"
    /\ Close

NextChat == ChatTransform \/ CloseChat

SpecChat == InitChat /\ [][NextChat]_vars

----------------------------------------------------------------------------
(* A call of the completion model, from the construction of the model on *)

InitCall ==
    /\ impl \in {"v1", "v2"}
    /\ InitStream
    /\ settings \in {Construct(given) : given \in SettingsGiven}
    /\ provider \in ProviderHeaders
    /\ schema \in Schemas
    /\ op = "none"
    /\ phase = "idle"
    /\ options = DefaultOptions
    /\ request = NoRequest
    /\ response = NoResponse
    /\ error = NoError
    /\ result = NoResult
    /\ streams = NoStreams

\* doGenerate or doStream up to the await: getRequestBody throws, or the
\* request is handed to postJsonToApi
Call(operation) ==
    /\ phase = "idle"
    /\ \E o \in CallOptions :
          LET r == GetRequestBody(impl, o, settings)
          IN  /\ op' = operation
              /\ options' = o
              /\ IF r.threw
                 THEN /\ phase' = "failed"
                      /\ error' = r.error
                      /\ request' = NoRequest
                 ELSE /\ phase' = "awaiting"
                      /\ error' = NoError
                      /\ request' =
                            Request(combineHeaders(ConfigHeaders(provider), r.headers),
                                    BodyOf(operation, r.body))
    /\ UNCHANGED << streams, impl, streamVars, settings, provider, schema, response, result >>

DoGenerate == Call("generate")

DoStream == Call("stream")

\* the upstream answers with a non-success status: failedResponseHandler
RespondFailure ==
    /\ phase = "awaiting"
    /\ \E resp \in FailedResponses :
          /\ response' = resp
          /\ error' = difyFailedResponseHandler(resp)
    /\ phase' = "failed"
    /\ UNCHANGED << streams, impl, streamVars, settings, provider, schema, op, options,
                    request, result >>

\* the upstream answers doGenerate with a JSON body
RespondGenerate ==
    /\ phase = "awaiting"
    /\ op = "generate"
    /\ \E body \in BlockingBodies :
          LET r == Generate(impl, schema, body)
          IN  /\ response' = OkBlocking(body)
              /\ IF r.threw
                 THEN phase' = "failed" /\ error' = r.error /\ result' = NoResult
                 ELSE phase' = "done" /\ error' = NoError /\ result' = r.result
    /\ UNCHANGED << streams, impl, streamVars, settings, provider, schema, op, options, request >>

\* the upstream answers doStream with an event stream: the stream is returned
RespondStream ==
    /\ phase = "awaiting"
    /\ op = "stream"
    /\ response' = OkStream
    /\ phase' = "streaming"
    /\ UNCHANGED << streams, impl, streamVars, settings, provider, schema, op, options,
                    request, error, result >>

CallTransform ==
    /\ Len(received) < MaxCallEvents
    /\ (V2Transform \/ V1Transform)

NextCall ==
    \/ DoGenerate
    \/ DoStream
    \/ RespondFailure
    \/ RespondGenerate
    \/ RespondStream
    \/ CallTransform
    \/ Close

SpecCall == InitCall /\ [][NextCall]_vars

----------------------------------------------------------------------------
(* Either operation of one model, called with the default options: a stream *)
(* of up to MaxEvents chunks, or a blocking response                        *)

\* doGenerate up to the await, the request handed to postJsonToApi
Awaiting ==
    /\ settings = Construct([responseMode |-> Undefined])
    /\ provider = EmptyMap
    /\ schema \in Schemas
    /\ op = "generate"
    /\ phase = "awaiting"
    /\ options = DefaultOptions
    /\ request =
          LET r == GetRequestBody(impl, DefaultOptions, settings)
          IN  Request(combineHeaders(ConfigHeaders(provider), r.headers),
                      BodyOf("generate", r.body))
    /\ response = NoResponse
    /\ error = NoError
    /\ result = NoResult

InitBoth ==
    /\ impl \in {"v1", "v2"}
    /\ InitStream
    /\ (Opened \/ Awaiting)
    /\ streams = NoStreams

NextBoth == V2Transform \/ V1Transform \/ Close \/ RespondGenerate

SpecBoth == InitBoth /\ [][NextBoth]_vars

----------------------------------------------------------------------------
(* Two streams open at once on one model instance *)

StreamNames == {"A", "B"}

\* const msgId = generateId(), once per doStream call
GeneratedId(s) == IF s = "A" THEN "generated-id" ELSE "generated-id-2"

\* what one doStream call declares before it returns the stream
NewStream(s) ==
    [ msgId |-> GeneratedId(s),
      workflowRunId |-> Undefined,
      taskId |-> Undefined,
      received |-> << >>,
      out |-> << >> ]

\* the chunks the two upstreams deliver
TwoChunks ==
    { Success(Event("workflow_started", "wfr1", "task1")),
      Success(WithData(Event("text_chunk", Undefined, Undefined), Data(JsUndefined, "Hi"))),
      Success(WithData(Event("workflow_finished", "wfr2", Undefined),
                       Data(JsNumber(42), Undefined))),
      Success(WithData(Event("workflow_finished", Undefined, Undefined),
                       Data(JsNumber(15), Undefined))),
      Success(Event("tts_message", Undefined, "task2")),
      Failure }

\* a slip: the ids are kept on the model instance, one pair for all streams
ClosureOf_OnInstance(ss, s) ==
    [workflowRunId |-> ss["A"].workflowRunId, taskId |-> ss["A"].taskId]

\* the closure variables the transform of stream s reads: those its own
\* doStream call declared
ClosureOf(ss, s) ==
    [workflowRunId |-> ss[s].workflowRunId, taskId |-> ss[s].taskId]

\* one transform call of stream s
TransformOf(s) ==
    /\ Len(streams[s].received) < MaxTwoEvents
    /\ \E chunk \in TwoChunks :
          LET c == ClosureOf(streams, s)
              r == IF impl = "v2"
                   THEN TransformV2(chunk, c.workflowRunId, c.taskId, streams[s].msgId)
                   ELSE TransformV1(chunk, c.workflowRunId, c.taskId)
          IN  streams' =
                [streams EXCEPT ![s] =
                    [ msgId |-> @.msgId,
                      workflowRunId |-> r.workflowRunId,
                      taskId |-> r.taskId,
                      received |-> Append(@.received, chunk),
                      out |-> Enqueue(@.out, r.parts) ]]
    /\ UNCHANGED << impl, streamVars, callVars >>

TransformA == TransformOf("A")

TransformB == TransformOf("B")

InitTwo ==
    /\ impl \in {"v1", "v2"}
    /\ InitStream
    /\ Opened
    /\ streams = [s \in StreamNames |-> NewStream(s)]

NextTwo == TransformA \/ TransformB

SpecTwo == InitTwo /\ [][NextTwo]_vars

----------------------------------------------------------------------------
(* Reading the histories *)

Last(s) == s[Len(s)]

CountType(parts, t) == Len(SelectSeq(parts, LAMBDA p : p.type = t))

IsEvent(chunk, kinds) == chunk.success /\ chunk.value.event \in kinds

CountEvents(chunks, kinds) == Len(SelectSeq(chunks, LAMBDA c : IsEvent(c, kinds)))

\* the last transform call was handed an event of one of the kinds
LastIs(kinds) == received # << >> /\ IsEvent(Last(received), kinds)

LastFailed == received # << >> /\ ~Last(received).success

\* the text of a text-delta part: delta (V2, chat) or textDelta (V1)
DeltaOf(part) == IF "delta" \in DOMAIN part THEN part.delta ELSE part.textDelta

Deltas(parts) ==
    LET d == SelectSeq(parts, LAMBDA p : p.type = "text-delta")
    IN  [i \in 1..Len(d) |-> DeltaOf(d[i])]

\* the non-empty answers of the message and agent_message events
NonEmptyAnswers(chunks) ==
    LET m == SelectSeq(chunks, LAMBDA c :
                 IsEvent(c, {"message", "agent_message"}) /\ Truthy(c.value.answer))
    IN  [i \in 1..Len(m) |-> m[i].value.answer]

\* the texts of the text_chunk events that carry a string, empty or not
ChunkTexts(chunks) ==
    LET m == SelectSeq(chunks, LAMBDA c :
                 /\ IsEvent(c, {"text_chunk"})
                 /\ c.value.data.typeof = "object"
                 /\ IsString(c.value.data.text))
    IN  [i \in 1..Len(m) |-> m[i].value.data.text]

\* the stream's own output for a sequence of chunks
StreamOut(chunks) ==
    IF impl = "v2" THEN StreamV2(chunks, msgId).out ELSE StreamV1(chunks).out

----------------------------------------------------------------------------
(* C1 *)

----------------------------------------------------------------------------
(* C2 *)

\* C2 as stated: the output of one stream contains at most one finish part,
\* whatever the upstream sends.
C2_AtMostOneFinish == CountType(out, "finish") <= 1

\* C2 as amended: the output contains at most one finish part when the
\* upstream sends at most one workflow_finished event; every further
\* workflow_finished event adds a finish part of its own.
C2_OneFinishPerWorkflowFinished ==
    /\ CountEvents(received, {"workflow_finished"}) <= 1
          => CountType(out, "finish") <= 1
    /\ CountEvents(received, {"workflow_finished"}) >= 2
          => CountType(out, "finish") >= 2

C2_Witness ==
    /\ Len(received) = 3
    /\ IsEvent(received[1], {"workflow_started"})
    /\ IsEvent(received[2], {"text_chunk"})
    /\ IsEvent(received[3], {"workflow_finished"})
    /\ CountType(out, "finish") = 1

----------------------------------------------------------------------------
(* C3 *)

----------------------------------------------------------------------------
(* C4 *)

\* C4: every chunk whose decode failed yields exactly one error part and
\* nothing else changes: the other parts of the output are the parts the
\* stream emits for the same chunks with the failed ones left out.
C4_FailureDoesNotDisturb ==
    LET valid == SelectSeq(received, LAMBDA c : c.success)
    IN  /\ CountType(out, "error") = Len(received) - Len(valid)
        /\ SelectSeq(out, LAMBDA p : p.type # "error") = StreamOut(valid)
        /\ LastFailed => out = SubSeq(out, 1, Len(out) - 1) \o << ErrorPart(Last(received)) >>

C4_Witness ==
    /\ Len(received) = 3
    /\ IsEvent(received[1], {"node_started"})
    /\ ~received[2].success
    /\ IsEvent(received[3], {"workflow_finished"})
    /\ CountType(out, "error") = 1
    /\ Last(out).type = "finish"
    /\ Last(out).providerMetadata.difyWorkflowData.taskId = "task1"

----------------------------------------------------------------------------
(* C5 *)

\* C5 as stated: dispatching a failure decode result emits no part and
\* leaves the accumulator unchanged.
C5_FailureIsSilent ==
    LastFailed => emitted = << >> /\ Accumulator = before

\* C5 as amended: dispatching a failure decode result emits exactly one
\* part, an error part carrying the decode error, and leaves the accumulator
\* (workflowRunId, taskId) unchanged.
C5_FailureEmitsErrorOnly ==
    LastFailed =>
        /\ emitted = << [type |-> "error", error |-> Last(received).error] >>
        /\ workflowRunId = before.workflowRunId
        /\ taskId = before.taskId

C5_Witness ==
    /\ LastFailed
    /\ before.workflowRunId = "wfr2"
    /\ before.taskId = "task2"
    /\ Len(emitted) = 1

----------------------------------------------------------------------------
(* C6, C7, C8: message_end in the chat model *)

HasDataTokens(e) == e.data.typeof = "object" /\ e.data.total_tokens.typeof = "number"

HasUsage(e) == e.usage.typeof = "object"

\* the one part of the last transform call, a finish part
EmittedFinishOnly == Len(emitted) = 1 /\ emitted[1].type = "finish"

\* C6: a message_end event with a numeric data.total_tokens and a
\* metadata.usage object yields a finish part with outputTokens and
\* totalTokens equal to data.total_tokens and inputTokens 0.
C6_DataTokensWin ==
    (LastIs({"message_end"}) /\ HasDataTokens(Last(received).value)
                             /\ HasUsage(Last(received).value))
    => /\ EmittedFinishOnly
       /\ emitted[1].usage =
            [ inputTokens |-> 0,
              outputTokens |-> Last(received).value.data.total_tokens.num,
              totalTokens |-> Last(received).value.data.total_tokens.num ]

C6_Witness ==
    /\ LastIs({"message_end"})
    /\ HasDataTokens(Last(received).value)
    /\ Last(received).value.usage.total_tokens = 35
    /\ EmittedFinishOnly
    /\ emitted[1].usage.outputTokens = 50

C8_NoDataFieldOutputZero ==
    (LastIs({"message_end"}) /\ Last(received).value.data.typeof = "undefined")
    => /\ CountType(emitted, "finish") = 1
       /\ \A i \in 1..Len(emitted) :
             emitted[i].type = "finish" => emitted[i].usage.outputTokens = 0

C8_Witness ==
    /\ Len(received) = 2
    /\ IsEvent(received[1], {"agent_message"})
    /\ IsEvent(received[2], {"message_end"})
    /\ received[2].value.data.typeof = "undefined"
    /\ received[2].value.usage.typeof = "object"
    /\ received[2].value.usage.completion_tokens = 25
    /\ Last(out).type = "finish"
    /\ Last(out).usage.outputTokens = 0

----------------------------------------------------------------------------
(* C9 *)

\* the usage of a finish part under the names of its interface version
UsageOf(tokens) ==
    IF impl = "v1" THEN [promptTokens |-> 0, completionTokens |-> tokens]
    ELSE [inputTokens |-> 0, outputTokens |-> tokens, totalTokens |-> tokens]

\* C9: every workflow_finished event produces one finish part, the last
\* part of the event, with finishReason "stop" and usage input 0, output T,
\* total T, where T is data.total_tokens when that is a number and 0
\* otherwise (V1 names the same counters promptTokens and completionTokens
\* and has no total).
C9_WorkflowFinishedUsage ==
    LastIs({"workflow_finished"}) =>
        /\ CountType(emitted, "finish") = 1
        /\ Last(emitted).type = "finish"
        /\ Last(emitted).finishReason = "stop"
        /\ Last(emitted).usage =
             UsageOf(IF HasDataTokens(Last(received).value)
                     THEN Last(received).value.data.total_tokens.num
                     ELSE 0)

C9_Witness ==
    /\ impl = "v2"
    /\ Len(received) = 2
    /\ IsEvent(received[1], {"workflow_finished"})
    /\ HasDataTokens(received[1].value)
    /\ received[1].value.data.total_tokens.num = 42
    /\ out[2].usage.outputTokens = 42
    /\ IsEvent(received[2], {"workflow_finished"})
    /\ received[2].value.data.typeof = "object"
    /\ received[2].value.data.total_tokens.typeof = "string"
    /\ Last(out).usage.outputTokens = 0

----------------------------------------------------------------------------
(* C10 *)

\* the last non-empty value of an id field among the events decoded so far
RECURSIVE LastNonEmpty(_, _)
LastNonEmpty(chunks, field) ==
    IF chunks = << >> THEN Undefined
    ELSE LET c == chunks[Len(chunks)]
         IN  IF c.success /\ Truthy(c.value[field]) THEN c.value[field]
             ELSE LastNonEmpty(SubSeq(chunks, 1, Len(chunks) - 1), field)

\* C10: the workflowRunId and taskId of a finish part are the last
\* non-empty workflow_run_id and task_id of the events received up to and
\* including the event that produced the part (undefined when there is none).
C10_FinishCarriesLastIds ==
    \A i \in 1..Len(emitted) :
        emitted[i].type = "finish" =>
            emitted[i].providerMetadata.difyWorkflowData =
                [ workflowRunId |-> LastNonEmpty(received, "workflow_run_id"),
                  taskId |-> LastNonEmpty(received, "task_id") ]

C10_Witness ==
    /\ Len(received) = 3
    /\ IsEvent(received[1], {"node_started"})
    /\ received[1].value.workflow_run_id = "wfr1"
    /\ IsEvent(received[2], {"tts_message"})
    /\ received[2].value.task_id = "task2"
    /\ IsEvent(received[3], {"workflow_finished"})
    /\ received[3].value.workflow_run_id = "wfr2"
    /\ Last(emitted).providerMetadata.difyWorkflowData =
          [workflowRunId |-> "wfr2", taskId |-> "task2"]

----------------------------------------------------------------------------
(* C11 *)

\* the decoded events the chat dispatcher handles
Recognized(chunks) == SelectSeq(chunks, LAMBDA c : IsEvent(c, ChatKinds))

\* C11: the conversationId and messageId of a finish part of the chat model
\* are the last non-empty conversation_id and message_id of the events
\* received so far, whether the terminal event carries them itself or an
\* earlier event did.
C11_FinishCarriesConversation ==
    \A i \in 1..Len(emitted) :
        emitted[i].type = "finish" =>
            /\ emitted[i].providerMetadata.difyWorkflowData.conversationId =
                  LastNonEmpty(Recognized(received), "conversation_id")
            /\ emitted[i].providerMetadata.difyWorkflowData.messageId =
                  LastNonEmpty(Recognized(received), "message_id")

C11_Witness ==
    /\ impl = "chat"
    /\ Len(received) = 2
    /\ IsEvent(received[1], {"agent_message"})
    /\ received[1].value.conversation_id = "conv1"
    /\ received[1].value.message_id = "msg1"
    /\ IsEvent(received[2], {"workflow_finished"})
    /\ received[2].value.conversation_id = Undefined
    /\ Last(emitted).type = "finish"
    /\ Last(emitted).providerMetadata.difyWorkflowData.conversationId = "conv1"
    /\ Last(emitted).providerMetadata.difyWorkflowData.messageId = "msg1"

----------------------------------------------------------------------------
(* C12 *)

\* C12: when the upstream answers a request with a non-success status,
\* doGenerate and doStream are rejected with an API call error whose message
\* is "Dify API error: " followed by the upstream's message, and neither a
\* result nor a stream part has been produced.
C12_FailureBeforeAnyResult ==
    response.status = "failed" =>
        /\ phase = "failed"
        /\ error.name = "AI_APICallError"
        /\ error.message = "Dify API error: " \o response.message
        /\ result = NoResult
        /\ out = << >>
        /\ received = << >>

C12_Witness ==
    /\ op = "stream"
    /\ phase = "failed"
    /\ response.status = "failed"
    /\ response.message = "Bad Request: Invalid input parameters"
    /\ error.message = "Dify API error: Bad Request: Invalid input parameters"
    /\ out = << >>

----------------------------------------------------------------------------
(* C13 *)

\* the call options carry a user-id header
UserIdGiven == options.headers.typeof = "object" /\ "user-id" \in DOMAIN options.headers.map

\* the user field the claim asks for
UserAsked == IF UserIdGiven THEN options.headers.map["user-id"] ELSE "you_should_pass_user-id"

\* C13 as stated: the user field of every outgoing body is the user-id
\* header of the caller when one is supplied and the placeholder when not,
\* and the outgoing headers never contain a user-id header.
C13_UserIdNeverSent ==
    request.sent =>
        /\ request.body.user = UserAsked
        /\ "user-id" \notin DOMAIN request.headers

\* C13 as amended: the user field of every outgoing body is the user-id
\* header of the call options when one is supplied and the placeholder when
\* not, and the user-id header of the call options is never sent; the
\* outgoing headers contain a user-id header exactly when the headers
\* configured on the provider do, with the configured value.
C13_CallUserIdNeverSent ==
    request.sent =>
        /\ request.body.user = UserAsked
        /\ "user-id" \in DOMAIN request.headers <=> "user-id" \in DOMAIN provider
        /\ "user-id" \in DOMAIN request.headers =>
               request.headers["user-id"] = provider["user-id"]
        /\ \A h \in DOMAIN MapOf(options.headers) \ {"user-id"} :
               h \in DOMAIN request.headers

C13_Witness ==
    /\ request.sent
    /\ UserIdGiven
    /\ options.headers.map["user-id"] = "test-user"
    /\ request.body.user = "test-user"
    /\ "user-id" \notin DOMAIN request.headers
    /\ "X-Provider" \in DOMAIN request.headers

----------------------------------------------------------------------------
(* C14 *)

\* the prompt and completion counters of a blocking result, under the names
\* of its version
ResultTokens(r) ==
    IF "inputTokens" \in DOMAIN r.usage
    THEN << r.usage.inputTokens, r.usage.outputTokens >>
    ELSE << r.usage.promptTokens, r.usage.completionTokens >>

\* doGenerate has returned a result
Generated == op = "generate" /\ phase = "done"

----------------------------------------------------------------------------
(* C15 *)

\* the text of a blocking response: outputs.result, absent or a string
ResponseText(body) ==
    IF body.outputs.typeof = "object" THEN body.outputs.result ELSE Undefined

\* C15: the content of a blocking result is a single text entry holding the
\* response's text when that text is non-empty, and the empty sequence when
\* the text is empty or absent (V1, whose result has a flat text field
\* instead of a content sequence, returns the text, or "").
C15_BlockingContent ==
    Generated =>
        LET text == ResponseText(response.body)
        IN  IF impl = "v2"
            THEN result.content =
                    IF text # Undefined /\ text # ""
                    THEN << [type |-> "text", text |-> text] >>
                    ELSE << >>
            ELSE result.text = IF text # Undefined THEN text ELSE ""

C15_Witness ==
    /\ Generated
    /\ impl = "v2"
    /\ response.body.outputs = Outputs("")
    /\ result.content = << >>

----------------------------------------------------------------------------
(* C16 *)

TtsKinds == {"tts_message", "tts_message_end"}

WithoutTts(chunks) == SelectSeq(chunks, LAMBDA c : ~IsEvent(c, TtsKinds))

PartTypes(parts) == [i \in 1..Len(parts) |-> parts[i].type]

\* C16 as stated: a tts_message or tts_message_end event emits no part and
\* changes no accumulator field, whatever ids it carries, and the output of
\* the stream is the output of the same stream without its TTS events.
C16_TtsIgnoredEntirely ==
    /\ LastIs(TtsKinds) => emitted = << >> /\ Accumulator = before
    /\ out = StreamOut(WithoutTts(received))

\* C16 as amended: a tts_message or tts_message_end event emits no part, but
\* a non-empty workflow_run_id or task_id it carries is stored like that of
\* any other event; the output of the stream has the parts of the same
\* stream without its TTS events, up to the ids in later finish parts.
C16_TtsEmitsNothingStoresIds ==
    /\ LastIs(TtsKinds) =>
          /\ emitted = << >>
          /\ workflowRunId =
                IF Truthy(Last(received).value.workflow_run_id)
                THEN Last(received).value.workflow_run_id
                ELSE before.workflowRunId
          /\ taskId =
                IF Truthy(Last(received).value.task_id)
                THEN Last(received).value.task_id
                ELSE before.taskId
    /\ PartTypes(out) = PartTypes(StreamOut(WithoutTts(received)))

C16_Witness ==
    /\ Len(received) = 2
    /\ IsEvent(received[1], {"workflow_started"})
    /\ before.taskId = "task1"
    /\ LastIs({"tts_message"})
    /\ Last(received).value.task_id = "task2"
    /\ taskId = "task2"
    /\ emitted = << >>

----------------------------------------------------------------------------
(* C17 *)

\* C17: the output of one stream contains at most one text-start part and
\* at most one text-end part, however many workflow_started and
\* workflow_finished events the upstream sends.
C17_AtMostOneTextSpan ==
    /\ CountType(out, "text-start") <= 1
    /\ CountType(out, "text-end") <= 1

----------------------------------------------------------------------------
(* C18 *)

\* the chunks before the last one
Front(chunks) == SubSeq(chunks, 1, Len(chunks) - 1)

----------------------------------------------------------------------------
(* C19 *)

MessageKinds == {"message", "agent_message"}

\* the last event is the first message or agent_message that carries an id,
\* in a stream without a workflow_started event
FirstMessageWithId ==
    /\ LastIs(MessageKinds)
    /\ IsString(Last(received).value.id)
    /\ CountEvents(received, {"workflow_started"}) = 0
    /\ \A i \in 1..(Len(received) - 1) :
          ~(IsEvent(received[i], MessageKinds) /\ IsString(received[i].value.id))

----------------------------------------------------------------------------
(* C20 *)

\* every event has yielded at most two parts, and a closed output holds the
\* parts of the events received and accepts no further event
BoundedOutput ==
    /\ Len(emitted) <= 2
    /\ Len(out) <= 2 * Len(received)
    /\ closed =>
          /\ out = StreamOut(received)
          /\ ~ENABLED (V2Transform \/ V1Transform)

\* C20: for every finite upstream event sequence the output is finite and
\* eventually completes: each event yields at most two parts, and once the
\* upstream closes the output closes without emitting further parts.
C20_FiniteOutputCompletes == []BoundedOutput /\ <>closed

C20_Witness ==
    /\ closed
    /\ impl = "v2"
    /\ Len(received) = 3
    /\ \A i \in 1..3 : IsEvent(received[i], {"workflow_started", "workflow_finished"})
    /\ Len(out) = 6

----------------------------------------------------------------------------
(* C21 *)

\* C21: a workflow_finished event emits text-end only while a text span is
\* open, so every text-end of the output is preceded by a text-start with
\* the same id, and a text-end comes immediately before a finish part.
C21_TextEndClosesOpenSpan ==
    \A i \in 1..Len(out) :
        out[i].type = "text-end" =>
            /\ \E j \in 1..(i - 1) :
                  out[j].type = "text-start" /\ out[j].id = out[i].id
            /\ i < Len(out)
            /\ out[i + 1].type = "finish"

----------------------------------------------------------------------------
(* C22 *)

\* a workflow_started arrived before the last event and no workflow_finished
\* came after it: the span the claim speaks of is open
SpanOpenBefore ==
    \E i \in 1..(Len(received) - 1) :
        /\ IsEvent(received[i], {"workflow_started"})
        /\ \A j \in (i + 1)..(Len(received) - 1) :
              ~IsEvent(received[j], {"workflow_finished"})

\* C22: a workflow_started event that arrives while no text span is open
\* emits response-metadata, with the event's id or run id, immediately
\* followed by text-start (V1, which has no span parts: response-metadata
\* alone), also when it has no workflow_run_id; one that arrives while a span
\* is open emits nothing.
C22_WorkflowStartedOpensSpanOnce ==
    LastIs({"workflow_started"}) =>
        IF SpanOpenBefore
        THEN emitted = << >>
        ELSE /\ PartTypes(emitted) =
                  IF impl = "v1" THEN << "response-metadata" >>
                  ELSE << "response-metadata", "text-start" >>
             /\ emitted[1].id =
                  IF IsString(Last(received).value.id)
                  THEN Last(received).value.id
                  ELSE Last(received).value.workflow_run_id

----------------------------------------------------------------------------
(* C23 *)

\* data.data.text of the last event: a string, or undefined
LastText ==
    IF Last(received).value.data.typeof = "object"
    THEN Last(received).value.data.text
    ELSE Undefined

\* the last event emitted exactly one text-delta holding the text
OneDelta(text) ==
    /\ Len(emitted) = 1
    /\ emitted[1].type = "text-delta"
    /\ DeltaOf(emitted[1]) = text

\* C23 as stated: a text_chunk event emits exactly one text-delta holding
\* data.text when that text is a non-empty string, and nothing when the text
\* is empty or missing.
C23_TextChunkNonEmptyOnly ==
    LastIs({"text_chunk"}) =>
        IF LastText # Undefined /\ LastText # ""
        THEN OneDelta(LastText)
        ELSE emitted = << >>

\* C23 as amended: a text_chunk event emits exactly one text-delta holding
\* data.text when that text is a string, the empty string included, and
\* nothing when data or data.text is missing.
C23_TextChunkAnyString ==
    LastIs({"text_chunk"}) =>
        IF LastText # Undefined
        THEN OneDelta(LastText)
        ELSE emitted = << >>

C23_Witness ==
    /\ impl = "v1"
    /\ LastIs({"text_chunk"})
    /\ LastText = ""
    /\ emitted = << [type |-> "text-delta", textDelta |-> ""] >>

----------------------------------------------------------------------------
(* C24 *)

\* the value an id field of the accumulator has after the last chunk, given
\* the value it had before: a non-empty id of a decoded event replaces it,
\* anything else leaves it
LastNonEmptyWins(old, field) ==
    IF Last(received).success /\ Last(received).value[field] # Undefined
       /\ Last(received).value[field] # ""
    THEN Last(received).value[field]
    ELSE old

\* C24: once workflowRunId or taskId holds a non-empty value no later chunk
\* makes it empty or undefined: an event with an absent or empty id leaves
\* the field as it was, an event with a non-empty id replaces it.
C24_IdsNeverCleared ==
    received # << >> =>
        /\ workflowRunId = LastNonEmptyWins(before.workflowRunId, "workflow_run_id")
        /\ taskId = LastNonEmptyWins(before.taskId, "task_id")
        /\ Truthy(before.workflowRunId) => Truthy(workflowRunId)
        /\ Truthy(before.taskId) => Truthy(taskId)

C24_Witness ==
    /\ impl = "v2"
    /\ Len(received) = 3
    /\ IsEvent(received[1], {"workflow_started"})
    /\ received[1].value.workflow_run_id = "wfr1"
    /\ IsEvent(received[2], {"workflow_finished"})
    /\ received[2].value.workflow_run_id = "wfr2"
    /\ IsEvent(received[3], {"node_finished"})
    /\ received[3].value.workflow_run_id = ""
    /\ before.workflowRunId = "wfr2"
    /\ workflowRunId = "wfr2"
    /\ taskId = "task1"

----------------------------------------------------------------------------
(* C25 *)

NodeKinds == {"node_started", "node_finished"}

\* C25: a node_started or node_finished event never emits a part; its only
\* effect is that workflowRunId and taskId take the event's ids when these
\* are present.
C25_NodeEventsOnlyStoreIds ==
    LastIs(NodeKinds) =>
        /\ emitted = << >>
        /\ out = StreamOut(Front(received))
        /\ workflowRunId = LastNonEmptyWins(before.workflowRunId, "workflow_run_id")
        /\ taskId = LastNonEmptyWins(before.taskId, "task_id")

C25_Witness ==
    /\ impl = "v1"
    /\ Len(received) = 2
    /\ IsEvent(received[1], {"text_chunk"})
    /\ before.workflowRunId = Undefined
    /\ LastIs({"node_started"})
    /\ workflowRunId = "wfr1"
    /\ taskId = "task1"
    /\ emitted = << >>
    /\ Len(out) = 1

----------------------------------------------------------------------------
(* C26 *)

\* the event kinds the upstream protocol names
KnownKinds == ChatKinds \cup TtsKinds

\* the last chunk is a decoded event with a discriminant outside them
LastUnrecognized ==
    /\ received # << >>
    /\ Last(received).success
    /\ Last(received).value.event \notin KnownKinds

\* C26 as stated: an event with an unrecognized discriminant emits no part
\* and leaves the accumulator unchanged, whatever ids it carries.
C26_UnrecognizedLeavesState ==
    LastUnrecognized => emitted = << >> /\ Accumulator = before

\* C26 as amended: an event with an unrecognized discriminant emits no part,
\* but a non-empty workflow_run_id or task_id it carries is stored like that
\* of any other event; the accumulator is unchanged only when the event
\* carries neither.
C26_UnrecognizedStoresIds ==
    LastUnrecognized =>
        /\ emitted = << >>
        /\ workflowRunId = LastNonEmptyWins(before.workflowRunId, "workflow_run_id")
        /\ taskId = LastNonEmptyWins(before.taskId, "task_id")

C26_Witness ==
    /\ impl = "v2"
    /\ Len(received) = 2
    /\ IsEvent(received[1], {"workflow_finished"})
    /\ before.workflowRunId = "wfr2"
    /\ before.taskId = Undefined
    /\ LastUnrecognized
    /\ Last(received).value.event = "ping"
    /\ workflowRunId = "wfr1"
    /\ taskId = "task1"
    /\ emitted = << >>

----------------------------------------------------------------------------
(* C27 *)

TextTypes == {"text-start", "text-delta", "text-end"}

\* the output and the closure variables a stream has when its own chunks
\* alone are transformed, from freshly declared closure variables
OwnFold(s) ==
    IF impl = "v2" THEN StreamV2(streams[s].received, GeneratedId(s))
    ELSE StreamV1(streams[s].received)

\* C27: within one stream every text-start, text-delta and text-end part
\* that carries an id carries the id generated when the stream was opened,
\* which never changes (the parts of V1 carry no id); and the closure
\* variables of a stream are those its own events left, whatever the other
\* stream received.
C27_OneTextIdPerStream ==
    \A s \in StreamNames :
        /\ streams[s].msgId = GeneratedId(s)
        /\ \A i \in 1..Len(streams[s].out) :
              (streams[s].out[i].type \in TextTypes /\ "id" \in DOMAIN streams[s].out[i])
                  => streams[s].out[i].id = streams[s].msgId
        /\ streams[s].workflowRunId = OwnFold(s).workflowRunId
        /\ streams[s].taskId = OwnFold(s).taskId

C27_Witness ==
    /\ impl = "v2"
    /\ PartTypes(streams["A"].out) =
          << "response-metadata", "text-start", "text-delta" >>
    /\ PartTypes(streams["B"].out) = << "text-delta", "text-end", "finish" >>
    /\ \A i \in 2..3 : streams["A"].out[i].id = "generated-id"
    /\ \A i \in 1..2 : streams["B"].out[i].id = "generated-id-2"
    /\ streams["A"].workflowRunId = "wfr1"
    /\ streams["B"].workflowRunId = "wfr2"

----------------------------------------------------------------------------
(* C28 *)

\* the workflowRunId and taskId of the finish part that ends the output
FinishIds(parts) ==
    [workflowRunId |-> Last(parts).providerMetadata.difyWorkflowData.workflowRunId,
     taskId |-> Last(parts).providerMetadata.difyWorkflowData.taskId]

\* C28: with two streams open on one model instance and their chunks
\* transformed in any interleaving, the output of each stream, the ids of
\* its finish part included, is the output its own chunks alone produce.
C28_StreamsIndependent ==
    \A s \in StreamNames : streams[s].out = OwnFold(s).out

C28_Witness ==
    /\ Len(streams["A"].received) = 2
    /\ Len(streams["B"].received) = 2
    /\ IsEvent(streams["A"].received[1], {"workflow_started"})
    /\ IsEvent(streams["B"].received[1], {"tts_message"})
    /\ Len(streams["A"].out) > 0
    /\ Len(streams["B"].out) > 0
    /\ Last(streams["A"].out).type = "finish"
    /\ Last(streams["B"].out).type = "finish"
    /\ FinishIds(streams["A"].out) = [workflowRunId |-> "wfr1", taskId |-> "task1"]
    /\ FinishIds(streams["B"].out) = [workflowRunId |-> Undefined, taskId |-> "task2"]

----------------------------------------------------------------------------
(* C29 *)

\* a V2 part in the shape of V1: no id on a text-delta, the text under
\* textDelta, the usage under promptTokens and completionTokens, no total
AsV1Part(part) ==
    CASE part.type = "text-delta" -> [type |-> "text-delta", textDelta |-> part.delta]
      [] part.type = "finish" ->
            [part EXCEPT !.usage = [promptTokens |-> part.usage.inputTokens,
                                    completionTokens |-> part.usage.outputTokens]]
      [] OTHER -> part

\* a V2 output as V1 would shape it: the text-start and text-end parts
\* removed, the other parts in the shape of V1
RECURSIVE AsV1(_)
AsV1(parts) ==
    IF parts = << >> THEN << >>
    ELSE IF parts[1].type \in {"text-start", "text-end"} THEN AsV1(Tail(parts))
    ELSE << AsV1Part(parts[1]) >> \o AsV1(Tail(parts))

\* the text of a blocking result: the text field of V1, the text entry of V2
ResultText(r) ==
    IF "text" \in DOMAIN r THEN r.text
    ELSE IF r.content = << >> THEN "" ELSE r.content[1].text

\* the stream a model has produced is, up to shape, the one the other
\* version produces from the same chunks
SameStreams ==
    phase = "streaming" =>
        /\ impl = "v1" => out = AsV1(StreamV2(received, msgId).out)
        /\ impl = "v2" => AsV1(out) = StreamV1(received).out

----------------------------------------------------------------------------
(* C30 *)

ContentTypes == {"text-start", "text-delta", "text-end", "response-metadata"}

\* a workflow_finished event arrived before the last event
FinishedBefore ==
    \E i \in 1..(Len(received) - 1) : IsEvent(received[i], {"workflow_finished"})

\* C30 as stated: after a finish part no text-start, text-delta, text-end
\* or response-metadata part follows in the output of the stream, whatever
\* events arrive after the terminal event.
C30_NothingAfterFinish ==
    \A i \in 1..Len(out) : \A j \in (i + 1)..Len(out) :
        out[i].type = "finish" => out[j].type \notin ContentTypes

\* C30, amended: the finish part is the last part of the event that
\* produces it, and so the last part of the output while no later event
\* emits; the transform keeps no record of having finished, and an event
\* that arrives after a workflow_finished is transformed like any other: a
\* text_chunk with a string text adds a text-delta, a workflow_started with
\* a run id adds a response-metadata part first.
C30_FinishLastOfItsEvent ==
    /\ \A i \in 1..Len(emitted) : emitted[i].type = "finish" => i = Len(emitted)
    /\ LastIs({"workflow_finished"}) => Last(out).type = "finish"
    /\ FinishedBefore =>
          /\ (LastIs({"text_chunk"}) /\ LastText # Undefined) => OneDelta(LastText)
          /\ (LastIs({"workflow_started"})
                /\ Last(received).value.workflow_run_id # Undefined)
             => /\ emitted # << >>
                /\ emitted[1] = [type |-> "response-metadata",
                                 id |-> Last(received).value.workflow_run_id]

C30_Witness ==
    /\ Len(received) = 2
    /\ IsEvent(received[1], {"workflow_finished"})
    /\ LastIs({"text_chunk"})
    /\ LastText = "Hi"
    /\ PartTypes(out) = IF impl = "v2" THEN << "text-end", "finish", "text-delta" >>
                        ELSE << "finish", "text-delta" >>

----------------------------------------------------------------------------
(* C31 *)

\* doGenerate or doStream was called
Called == op # "none"

\* the last message of the prompt has a file or an image part
LastHasAttachment ==
    LET content == Last(options.prompt).content
    IN  /\ content.typeof = "array"
        /\ \E i \in 1..Len(content.parts) : content.parts[i].type \in {"file", "image"}

\* the prompt of the call is one the claim says is refused
Refused ==
    \/ options.prompt = << >>
    \/ Last(options.prompt).role # "user"
    \/ LastHasAttachment

\* C31: a call whose prompt is empty, whose last message is not a user
\* message, or whose last message holds a file or image attachment fails
\* with an APICallError while the request body is built: no request is
\* sent, no response is read, and no result and no stream part is produced.
C31_BadPromptFailsBeforeRequest ==
    (Called /\ Refused) =>
        /\ phase = "failed"
        /\ error.name = "AI_APICallError"
        /\ request = NoRequest
        /\ response = NoResponse
        /\ result = NoResult
        /\ out = << >>

----------------------------------------------------------------------------
(* C32 *)

\* the model was constructed without a response mode in its settings
ConstructedWithoutMode == settings = Construct([responseMode |-> Undefined])

\* C32: a model constructed without a response mode sends response_mode
\* "streaming" in the body of every request, from doGenerate as well as
\* from doStream; and doStream sends "streaming" whatever mode the model
\* was constructed with.
C32_StreamingModeByDefault ==
    request.sent =>
        /\ ConstructedWithoutMode => request.body.response_mode = "streaming"
        /\ op = "stream" => request.body.response_mode = "streaming"

\* the blocking operation of a model constructed without a mode has posted
\* its request
C32_Witness ==
    /\ ConstructedWithoutMode
    /\ op = "generate"
    /\ phase = "done"
    /\ request.sent
    /\ request.body.response_mode = "streaming"

====
